---- MODULE Spec2Model ----
(***************************************************************************)
(* Single substitution (GSUB 1) and pair positioning (GPOS 2) subtables:   *)
(* the canonical mappings, the wire variants the encoders build from them, *)
(* the bytes of those variants and the decoders reading the bytes back     *)
(* through a ReaderContext.                                                *)
(***************************************************************************)
EXTENDS Integers, Sequences, FiniteSets, TLC

VARIABLES kind, overflow_checks, subst, pairpos, wire, data, tampered,
          c, c0, pc, outcome, ret, format, coverage, value_format1,
          value_format2, offsets, idx, mapping, reads, wire2, data2

vars == <<kind, overflow_checks, subst, pairpos, wire, data, tampered,
          c, c0, pc, outcome, ret, format, coverage, value_format1,
          value_format2, offsets, idx, mapping, reads, wire2, data2>>

(***************************************************************************)
(* Bounds of the model.                                                    *)
(***************************************************************************)
\* largest number of entries of a canonical mapping
MaxEntries == 2
\* largest number of 16-bit words in front of the subtable in the input
MaxPad == 1

(***************************************************************************)
(* 16-bit integers.                                                        *)
(***************************************************************************)
\* uint16 has 2^16 values
U16Mod == 65536
\* int16::MAX + 1
I16Lim == 32768

\* `x as i16` for a uint16 x
AsI16(x) == IF x >= I16Lim THEN x - U16Mod ELSE x
\* `x as u16` for any integer (two's complement)
AsU16(x) == x % U16Mod
\* i16::wrapping_sub, i16::wrapping_add
wrapping_sub(a, b) == AsI16((a - b) % U16Mod)
wrapping_add(a, b) == AsI16((a + b) % U16Mod)
\* does a + b leave the int16 range
I16AddOverflows(a, b) == (a + b >= I16Lim) \/ (a + b < 0 - I16Lim)

\* big-endian bytes of a uint16 / int16
U16Bytes(x) == <<x \div 256, x % 256>>
I16Bytes(x) == U16Bytes(AsU16(x))

RECURSIVE U16ArrayBytes(_)
U16ArrayBytes(s) ==
    IF s = <<>> THEN <<>> ELSE U16Bytes(Head(s)) \o U16ArrayBytes(Tail(s))

\* ascending iteration of a BTreeMap's keys / a set of integers
RECURSIVE SortedSeq(_)
SortedSeq(S) ==
    IF S = {} THEN <<>>
    ELSE LET m == CHOOSE x \in S : \A y \in S : x <= y
         IN  <<m>> \o SortedSeq(S \ {m})

Range(s) == {s[i] : i \in DOMAIN s}
Min(a, b) == IF a <= b THEN a ELSE b

(***************************************************************************)
(* ReaderContext: input bytes, read pointer, stack of table bases.         *)
(***************************************************************************)
ReaderContext_new(input, at) == [input |-> input, ptr |-> at, stack |-> <<0>>]
push(cx) == [cx EXCEPT !.stack = Append(@, cx.ptr)]
pop(cx) == [cx EXCEPT !.stack = SubSeq(@, 1, Len(@) - 1)]
top_of_table(cx) == cx.stack[Len(cx.stack)]

\* results of a read: st is "ok" (val read, c the cursor after it), "err"
\* (Err returned) or "panic"
Ok(v, cx) == [st |-> "ok", val |-> v, c |-> cx]
Err(cx) == [st |-> "err", val |-> <<>>, c |-> cx]
Panic(cx) == [st |-> "panic", val |-> <<>>, c |-> cx]
\* `let x = r?; K(x)`: a failure of r is the result, else the rest goes on
Try(r, K(_)) == IF r.st = "ok" THEN K(r) ELSE [r EXCEPT !.val = <<>>]

\* c.peek(2) / c.de::<uint16>(): Err at the end of the input
CanRead(cx, n) == cx.ptr + n <= Len(cx.input)
PeekU16(cx) == cx.input[cx.ptr + 1] * 256 + cx.input[cx.ptr + 2]
ReadU16(cx) ==
    IF CanRead(cx, 2) THEN Ok(PeekU16(cx), [cx EXCEPT !.ptr = @ + 2]) ELSE Err(cx)

RECURSIVE de_counted(_, _)
de_counted(cx, n) ==
    IF n = 0 THEN Ok(<<>>, cx)
    ELSE Try(ReadU16(cx), LAMBDA r :
         Try(de_counted(r.c, n - 1), LAMBDA rest :
         Ok(<<r.val>> \o rest.val, rest.c)))

(***************************************************************************)
(* Coverage (format 1 glyph list) and Offset16<Coverage>.                  *)
(***************************************************************************)
Coverage_to_bytes(glyphs) ==
    U16Bytes(1) \o U16Bytes(Len(glyphs)) \o U16ArrayBytes(glyphs)

Coverage_from_bytes(cx) ==
    Try(ReadU16(cx), LAMBDA f :
    IF f.val # 1 THEN Err(f.c)
    ELSE Try(ReadU16(f.c), LAMBDA n : de_counted(n.c, n.val)))

\* val is <<>> for a null offset (None) and <<glyphs>> for a link (Some)
Offset16_Coverage_from_bytes(cx) ==
    Try(ReadU16(cx), LAMBDA o :
    IF o.val = 0 THEN Ok(<<>>, o.c)
    ELSE Try(Coverage_from_bytes([o.c EXCEPT !.ptr = top_of_table(o.c) + o.val]),
             LAMBDA cov : Ok(<<cov.val>>, [cov.c EXCEPT !.ptr = o.c.ptr])))

(***************************************************************************)
(* SingleSubst: encoder.                                                   *)
(***************************************************************************)
\* the comparison made with plain addition in place of wrapping_add
SingleSubst_breaks_delta_unwrapped(m, delta) ==
    LET keys == SortedSeq(DOMAIN m)
    IN  \E i \in 2..Len(keys) : AsI16(keys[i]) + delta # AsI16(m[keys[i]])

\* the entries after the first one break the delta of the first one
SingleSubst_breaks_delta(m, delta) ==
    LET keys == SortedSeq(DOMAIN m)
    IN  \E i \in 2..Len(keys) :
            wrapping_add(AsI16(keys[i]), delta) # AsI16(m[keys[i]])

SingleSubst_best_format(m) ==
    IF DOMAIN m = {} THEN <<2, 0>>
    ELSE LET first_left == SortedSeq(DOMAIN m)[1]
             delta == wrapping_sub(AsI16(m[first_left]), AsI16(first_left))
         IN  <<IF SingleSubst_breaks_delta(m, delta) THEN 2 ELSE 1, delta>>

SingleSubstInternal_from(m) ==
    LET glyphs == SortedSeq(DOMAIN m)
        bf == SingleSubst_best_format(m)
    IN  IF bf[1] = 1
        THEN [substFormat |-> 1, coverage |-> glyphs, deltaGlyphID |-> bf[2],
              substituteGlyphIDs |-> <<>>]
        ELSE [substFormat |-> 2, coverage |-> glyphs, deltaGlyphID |-> 0,
              substituteGlyphIDs |-> [i \in 1..Len(glyphs) |-> m[glyphs[i]]]]

\* Format 1: format, coverage offset, delta; Format 2: format, coverage
\* offset, count, substitutes; the coverage table follows the subtable
SingleSubstInternal_to_bytes(s) ==
    IF s.substFormat = 1
    THEN U16Bytes(1) \o U16Bytes(6) \o I16Bytes(s.deltaGlyphID)
         \o Coverage_to_bytes(s.coverage)
    ELSE U16Bytes(2) \o U16Bytes(6 + 2 * Len(s.substituteGlyphIDs))
         \o U16Bytes(Len(s.substituteGlyphIDs))
         \o U16ArrayBytes(s.substituteGlyphIDs)
         \o Coverage_to_bytes(s.coverage)

SingleSubst_to_bytes(m) == SingleSubstInternal_to_bytes(SingleSubstInternal_from(m))

(***************************************************************************)
(* SingleSubst: decoder.                                                   *)
(***************************************************************************)
\* BTreeMap::insert of keys[i] -> vals[i] for i = 1..n in turn: a later
\* insert of the same key replaces the earlier one
InsertAll(keys, vals, n) ==
    [g \in {keys[i] : i \in 1..n} |->
        vals[CHOOSE i \in 1..n :
                keys[i] = g /\ \A j \in 1..n : keys[j] = g => j <= i]]

\* SingleSubstFormat1 / SingleSubstFormat2 read as tables with an offset base
SingleSubstFormat1_from_bytes(cx) ==
    Try(ReadU16(push(cx)), LAMBDA f :
    Try(Offset16_Coverage_from_bytes(f.c), LAMBDA cov :
    Try(ReadU16(cov.c), LAMBDA d :
    Ok([coverage |-> cov.val, deltaGlyphID |-> AsI16(d.val)], pop(d.c)))))

SingleSubstFormat2_from_bytes(cx) ==
    Try(ReadU16(push(cx)), LAMBDA f :
    Try(Offset16_Coverage_from_bytes(f.c), LAMBDA cov :
    Try(ReadU16(cov.c), LAMBDA n :
    Try(de_counted(n.c, n.val), LAMBDA subs :
    Ok([coverage |-> cov.val, substituteGlyphIDs |-> subs.val], pop(subs.c))))))

\* `*gid as i16 + sub.deltaGlyphID`: the sum of two i16; with overflow checks
\* compiled in (debug profile) a sum outside the i16 range panics, without
\* them (release profile) it wraps
Format1_add_panics(glyphs, delta, checks) ==
    checks /\ \E i \in DOMAIN glyphs : I16AddOverflows(AsI16(glyphs[i]), delta)

Format1_substitute(gid, delta) == AsU16(AsI16(gid) + delta)

Format1_mapping(glyphs, delta) ==
    InsertAll(glyphs, [i \in DOMAIN glyphs |-> Format1_substitute(glyphs[i], delta)],
              Len(glyphs))

Format2_mapping(glyphs, subs) == InsertAll(glyphs, subs, Min(Len(glyphs), Len(subs)))

\* the call: "ok" with the mapping, "err" or "panic"
SingleSubst_from_bytes(cx, checks) ==
    IF ~CanRead(cx, 2) THEN Err(cx)
    ELSE IF PeekU16(cx) = 1 THEN
        Try(SingleSubstFormat1_from_bytes(cx), LAMBDA sub :
        IF sub.val.coverage = <<>> THEN Panic(sub.c)
        ELSE IF Format1_add_panics(sub.val.coverage[1], sub.val.deltaGlyphID, checks)
             THEN Panic(sub.c)
        ELSE Ok(Format1_mapping(sub.val.coverage[1], sub.val.deltaGlyphID), sub.c))
    ELSE IF PeekU16(cx) = 2 THEN
        Try(SingleSubstFormat2_from_bytes(cx), LAMBDA sub :
        IF sub.val.coverage = <<>> THEN Panic(sub.c)
        ELSE Ok(Format2_mapping(sub.val.coverage[1], sub.val.substituteGlyphIDs),
                sub.c))
    ELSE Panic(cx)

(***************************************************************************)
(* ValueRecord: Option fields, flags, simplify, highest_format.            *)
(***************************************************************************)
ValueFields == <<"xPlacement", "yPlacement", "xAdvance", "yAdvance">>
FlagBit(f) == CASE f = "xPlacement" -> 1 [] f = "yPlacement" -> 2
                [] f = "xAdvance" -> 4 [] f = "yAdvance" -> 8

\* a field is <<>> (None) or <<v>> (Some(v))
ValueRecord_new == [f \in Range(ValueFields) |-> <<>>]
simplify(vr) == [f \in DOMAIN vr |-> IF vr[f] = <<0>> THEN <<>> ELSE vr[f]]
flags(vr) == {f \in DOMAIN vr : vr[f] # <<>>}
highest_format(vrs) == UNION {flags(vrs[i]) : i \in DOMAIN vrs}

RECURSIVE FlagsBits(_)
FlagsBits(F) ==
    IF F = {} THEN 0
    ELSE LET f == CHOOSE x \in F : TRUE IN FlagBit(f) + FlagsBits(F \ {f})
ValueRecordFlags_to_bytes(F) == U16Bytes(FlagsBits(F))
ValueRecordFlags_from_bits(n) ==
    {f \in Range(ValueFields) : (n \div FlagBit(f)) % 2 = 1}

\* a record writes the fields it has, in field order
RECURSIVE ValueRecord_fields_to_bytes(_, _)
ValueRecord_fields_to_bytes(vr, i) ==
    IF i > Len(ValueFields) THEN <<>>
    ELSE (IF vr[ValueFields[i]] = <<>> THEN <<>>
          ELSE I16Bytes(vr[ValueFields[i]][1]))
         \o ValueRecord_fields_to_bytes(vr, i + 1)
ValueRecord_to_bytes(vr) == ValueRecord_fields_to_bytes(vr, 1)

\* a record is read with the fields the flags name, in field order
RECURSIVE ValueRecord_read_fields(_, _, _, _)
ValueRecord_read_fields(cx, F, i, rec) ==
    IF i > Len(ValueFields) THEN Ok(rec, cx)
    ELSE IF ValueFields[i] \notin F THEN ValueRecord_read_fields(cx, F, i + 1, rec)
    ELSE Try(ReadU16(cx), LAMBDA r :
         ValueRecord_read_fields(r.c, F, i + 1,
             [rec EXCEPT ![ValueFields[i]] = <<AsI16(r.val)>>]))
ValueRecord_from_bytes(cx, F) == ValueRecord_read_fields(cx, F, 1, ValueRecord_new)

(***************************************************************************)
(* PairPos: encoder.                                                       *)
(***************************************************************************)
RECURSIVE Flatten(_)
Flatten(ss) == IF ss = <<>> THEN <<>> ELSE Head(ss) \o Flatten(Tail(ss))

\* lines 149-153: every value record of the cloned mapping simplified
PairPos_simplified(m) ==
    [k \in DOMAIN m |-> <<simplify(m[k][1]), simplify(m[k][2])>>]

split_into_two_layer(in_hash) ==
    [l \in {k[1] : k \in DOMAIN in_hash} |->
        [r \in {k[2] : k \in {x \in DOMAIN in_hash : x[1] = l}} |->
            in_hash[<<l, r>>]]]

PairPos_best_format(m) == 1

\* the (vr1, vr2) pairs of one left glyph, by ascending right glyph
PairPos_values_of(split_mapping, left) ==
    LET rights == SortedSeq(DOMAIN split_mapping[left])
    IN  [j \in 1..Len(rights) |-> split_mapping[left][rights[j]]]

\* the records of the first left glyph only
all_pair_vrs_first_left(split_mapping) ==
    LET lefts == SortedSeq(DOMAIN split_mapping)
    IN  IF lefts = <<>> THEN <<>> ELSE PairPos_values_of(split_mapping, lefts[1])

\* split_mapping.values().map(|x| x.values()).flatten().collect()
all_pair_vrs(split_mapping) ==
    LET lefts == SortedSeq(DOMAIN split_mapping)
    IN  Flatten([i \in 1..Len(lefts) |-> PairPos_values_of(split_mapping, lefts[i])])

value_format_1(split_mapping) ==
    LET vrs == all_pair_vrs(split_mapping)
    IN  highest_format([i \in DOMAIN vrs |-> vrs[i][1]])

value_format_2(split_mapping) ==
    LET vrs == all_pair_vrs(split_mapping)
    IN  highest_format([i \in DOMAIN vrs |-> vrs[i][2]])

\* the records pushed by descending right glyph
pair_value_records_descending(split_mapping, left) ==
    LET rights == SortedSeq(DOMAIN split_mapping[left])
        n == Len(rights)
    IN  [j \in 1..n |->
            [secondGlyph |-> rights[n + 1 - j],
             valueRecord1 |-> split_mapping[left][rights[n + 1 - j]][1],
             valueRecord2 |-> split_mapping[left][rights[n + 1 - j]][2]]]

\* lines 171-178: the PairValueRecords pushed for one left glyph
pair_value_records(split_mapping, left) ==
    LET rights == SortedSeq(DOMAIN split_mapping[left])
    IN  [j \in 1..Len(rights) |->
            [secondGlyph |-> rights[j],
             valueRecord1 |-> split_mapping[left][rights[j]][1],
             valueRecord2 |-> split_mapping[left][rights[j]][2]]]

PairPos_coverage(split_mapping) == SortedSeq(DOMAIN split_mapping)

PairPosInternal_from(m) ==
    LET simplified == PairPos_simplified(m)
        fmt == PairPos_best_format(simplified)
        split_mapping == split_into_two_layer(simplified)
        glyphs == PairPos_coverage(split_mapping)
    IN  [posFormat |-> fmt,
         coverage |-> glyphs,
         valueFormat1 |-> value_format_1(split_mapping),
         valueFormat2 |-> value_format_2(split_mapping),
         pairSets |-> [i \in 1..Len(glyphs) |->
                          pair_value_records(split_mapping, glyphs[i])]]

PairValueRecord_to_bytes(r) ==
    U16Bytes(r.secondGlyph) \o ValueRecord_to_bytes(r.valueRecord1)
    \o ValueRecord_to_bytes(r.valueRecord2)

PairSet_to_bytes(ps) ==
    U16Bytes(Len(ps)) \o Flatten([j \in 1..Len(ps) |-> PairValueRecord_to_bytes(ps[j])])

\* the subtable's fields, then the tables its offsets link to in field
\* order: the coverage, then the pair sets; offsets count from the format tag
RECURSIVE PairSetOffsets(_, _)
PairSetOffsets(pairSets, at) ==
    IF pairSets = <<>> THEN <<>>
    ELSE <<at>> \o PairSetOffsets(Tail(pairSets),
                                  at + Len(PairSet_to_bytes(Head(pairSets))))

PairPosFormat1_to_bytes(s) ==
    LET n == Len(s.pairSets)
        covOff == 10 + 2 * n
        covBytes == Coverage_to_bytes(s.coverage)
    IN  U16Bytes(s.posFormat) \o U16Bytes(covOff)
        \o ValueRecordFlags_to_bytes(s.valueFormat1)
        \o ValueRecordFlags_to_bytes(s.valueFormat2)
        \o U16Bytes(n)
        \o U16ArrayBytes(PairSetOffsets(s.pairSets, covOff + Len(covBytes)))
        \o covBytes
        \o Flatten([i \in 1..n |-> PairSet_to_bytes(s.pairSets[i])])

PairPos_to_bytes(m) == PairPosFormat1_to_bytes(PairPosInternal_from(m))

(***************************************************************************)
(* PairPos: decoder, in the steps of from_bytes.                           *)
(***************************************************************************)
\* format 2 let through to the pair set loop
PairPos_format_decodable_lenient(fmt) == fmt \in {1, 2}

\* the match on format: arm 1 decodes, arm 2 is unimplemented!(), any
\* other value panics
PairPos_format_decodable(fmt) == fmt = 1

\* lines 96-108: push, the fields in front of the pair sets, the match on
\* format and the unwrap of the coverage; "ok" is the entry of the loop
PairPos_begin(cx) ==
    Try(ReadU16(push(cx)), LAMBDA f :
    Try(Offset16_Coverage_from_bytes(f.c), LAMBDA cov :
    Try(ReadU16(cov.c), LAMBDA v1 :
    Try(ReadU16(v1.c), LAMBDA v2 :
    IF ~PairPos_format_decodable(f.val) THEN Panic(v2.c)
    ELSE Try(ReadU16(v2.c), LAMBDA n :
         Try(de_counted(n.c, n.val), LAMBDA offs :
         IF cov.val = <<>> THEN Panic(offs.c)
         ELSE Ok([format |-> f.val, coverage |-> cov.val[1],
                  vf1 |-> ValueRecordFlags_from_bits(v1.val),
                  vf2 |-> ValueRecordFlags_from_bits(v2.val),
                  offsets |-> offs.val], offs.c)))))))

\* the offset taken from the cursor instead of the table base
pair_set_start_from_cursor(cx, offset) == cx.ptr + offset

\* line 110: where the pair set at a stored offset starts
pair_set_start(cx, offset) == top_of_table(cx) + offset

\* line 118: mapping.insert((left, right), (vr1, vr2))
insert(m, k, v) == [x \in DOMAIN m \cup {k} |-> IF x = k THEN v ELSE m[x]]

\* lines 112-119: n pair value records read at the cursor and inserted
RECURSIVE read_pair_value_records(_, _, _, _, _, _)
read_pair_value_records(cx, n, left, vf1, vf2, m) ==
    IF n = 0 THEN Ok(m, cx)
    ELSE Try(ReadU16(cx), LAMBDA r :
         Try(ValueRecord_from_bytes(r.c, vf1), LAMBDA vr1 :
         Try(ValueRecord_from_bytes(vr1.c, vf2), LAMBDA vr2 :
         read_pair_value_records(vr2.c, n - 1, left, vf1, vf2,
             insert(m, <<left, r.val>>, <<simplify(vr1.val), simplify(vr2.val)>>)))))

\* lines 110-119: one iteration of the loop over coverage.zip(offsets)
read_pair_set(cx, left, offset, vf1, vf2, m) ==
    Try(ReadU16([cx EXCEPT !.ptr = pair_set_start(cx, offset)]), LAMBDA n :
    read_pair_value_records(n.c, n.val, left, vf1, vf2, m))

(***************************************************************************)
(* Inputs: the canonical mappings the encoders are given.                  *)
(***************************************************************************)
SampleGlyphs == {0, 1, 32767, 32768, 65535}
SubstMappings ==
    UNION {[K -> SampleGlyphs] :
              K \in {S \in SUBSET SampleGlyphs : Cardinality(S) <= MaxEntries}}

vr(xPlacement, xAdvance, yAdvance) ==
    [ValueRecord_new EXCEPT !["xPlacement"] = xPlacement,
                            !["xAdvance"] = xAdvance,
                            !["yAdvance"] = yAdvance]
SampleRecordPairs ==
    { <<vr(<<>>, <<0 - 90>>, <<>>), ValueRecord_new>>,
      <<vr(<<>>, <<0>>, <<>>), ValueRecord_new>>,
      <<ValueRecord_new, ValueRecord_new>>,
      <<vr(<<5>>, <<0 - 150>>, <<>>), vr(<<>>, <<0>>, <<7>>)>> }
SamplePairKeys == {0, 332} \X {289, 332}
PairMappings ==
    UNION {[K -> SampleRecordPairs] :
              K \in {S \in SUBSET SamplePairKeys : Cardinality(S) <= MaxEntries}}

\* format tags an input may carry in place of the encoder's
SampleTags == {0, 1, 2, 3, 65535}

Pad(p) == [i \in 1..(2 * p) |-> 0]

(***************************************************************************)
(* The state machine.                                                      *)
(***************************************************************************)
Init ==
    /\ \/ /\ kind = "subst"
          /\ overflow_checks \in BOOLEAN
          /\ subst \in SubstMappings
          /\ pairpos = <<>>
       \/ /\ kind = "pair"
          /\ overflow_checks = FALSE
          /\ subst = <<>>
          /\ pairpos \in PairMappings
    /\ wire = <<>> /\ data = <<>> /\ tampered = FALSE
    /\ c = ReaderContext_new(<<>>, 0) /\ c0 = ReaderContext_new(<<>>, 0)
    /\ pc = "start" /\ outcome = "none" /\ ret = <<>>
    /\ format = 0 /\ coverage = <<>> /\ value_format1 = {} /\ value_format2 = {}
    /\ offsets = <<>> /\ idx = 0 /\ mapping = <<>> /\ reads = <<>>
    /\ wire2 = <<>> /\ data2 = <<>>

decodeVars == <<c, c0, outcome, ret, format, coverage, value_format1,
                value_format2, offsets, idx, mapping, reads>>

\* impl Serialize for SingleSubst
SingleSubstEncode ==
    /\ pc = "start" /\ kind = "subst"
    /\ wire' = SingleSubstInternal_from(subst)
    /\ data' = SingleSubstInternal_to_bytes(wire')
    /\ pc' = "encoded"
    /\ UNCHANGED <<kind, overflow_checks, subst, pairpos, tampered, decodeVars,
                   wire2, data2>>

\* impl Serialize for PairPos
PairPosEncode ==
    /\ pc = "start" /\ kind = "pair"
    /\ wire' = PairPosInternal_from(pairpos)
    /\ data' = PairPosFormat1_to_bytes(wire')
    /\ pc' = "encoded"
    /\ UNCHANGED <<kind, overflow_checks, subst, pairpos, tampered, decodeVars,
                   wire2, data2>>

\* inputs of from_bytes other than an encoder's output: another format tag
SetTag ==
    /\ pc = "encoded" /\ ~tampered
    /\ \E t \in SampleTags :
          /\ data # U16Bytes(t) \o SubSeq(data, 3, Len(data))
          /\ data' = U16Bytes(t) \o SubSeq(data, 3, Len(data))
    /\ tampered' = TRUE
    /\ UNCHANGED <<kind, overflow_checks, subst, pairpos, wire, pc, decodeVars,
                   wire2, data2>>

\* a truncated input
Truncate ==
    /\ pc = "encoded" /\ ~tampered
    /\ \E n \in 0..(Len(data) - 1) : data' = SubSeq(data, 1, n)
    /\ tampered' = TRUE
    /\ UNCHANGED <<kind, overflow_checks, subst, pairpos, wire, pc, decodeVars,
                   wire2, data2>>

\* pairSetOffset[i] as stored in PairPos Format 1 bytes
PairSetOffsetAt(bytes, at, i) ==
    bytes[at + 10 + 2 * i - 1] * 256 + bytes[at + 10 + 2 * i]

\* a PairPos input whose pair set offsets are permuted, overlap each other
\* or the coverage, or point past the end
RedirectPairSet ==
    /\ pc = "encoded" /\ ~tampered /\ kind = "pair"
    /\ \E i \in 1..Len(wire.pairSets) :
       \E v \in {PairSetOffsetAt(data, 0, j) : j \in 1..Len(wire.pairSets)}
                \cup {10 + 2 * Len(wire.pairSets), Len(data)} :
          /\ v # PairSetOffsetAt(data, 0, i)
          /\ data' = SubSeq(data, 1, 10 + 2 * i - 2) \o U16Bytes(v)
                     \o SubSeq(data, 10 + 2 * i + 1, Len(data))
    /\ tampered' = TRUE
    /\ UNCHANGED <<kind, overflow_checks, subst, pairpos, wire, pc, decodeVars,
                   wire2, data2>>

\* impl Deserialize for SingleSubst: the whole call
SingleSubstDecode ==
    /\ pc = "encoded" /\ kind = "subst"
    /\ \E p \in 0..MaxPad :
       \E r \in {SingleSubst_from_bytes(ReaderContext_new(Pad(p) \o data, 2 * p),
                                        overflow_checks)} :
          /\ c0' = ReaderContext_new(Pad(p) \o data, 2 * p)
          /\ c' = r.c
          /\ outcome' = r.st
          /\ ret' = IF r.st = "ok" THEN <<r.val>> ELSE <<>>
          /\ pc' = IF r.st = "panic" THEN "panicked" ELSE "returned"
    /\ UNCHANGED <<kind, overflow_checks, subst, pairpos, wire, data, tampered,
                   format, coverage, value_format1, value_format2, offsets,
                   idx, mapping, reads, wire2, data2>>

\* impl Deserialize for PairPos, lines 96-108: up to the loop
PairPosBegin ==
    /\ pc = "encoded" /\ kind = "pair"
    /\ \E p \in 0..MaxPad :
       \E b \in {PairPos_begin(ReaderContext_new(Pad(p) \o data, 2 * p))} :
          /\ c0' = ReaderContext_new(Pad(p) \o data, 2 * p)
          /\ c' = b.c
          /\ IF b.st = "ok"
             THEN /\ format' = b.val.format
                  /\ coverage' = b.val.coverage
                  /\ value_format1' = b.val.vf1
                  /\ value_format2' = b.val.vf2
                  /\ offsets' = b.val.offsets
                  /\ pc' = "loop"
                  /\ outcome' = "none"
             ELSE /\ format' = 0 /\ coverage' = <<>> /\ offsets' = <<>>
                  /\ value_format1' = {} /\ value_format2' = {}
                  /\ pc' = IF b.st = "panic" THEN "panicked" ELSE "returned"
                  /\ outcome' = b.st
    /\ idx' = 1 /\ mapping' = <<>> /\ reads' = <<>> /\ ret' = <<>>
    /\ UNCHANGED <<kind, overflow_checks, subst, pairpos, wire, data, tampered,
                   wire2, data2>>

\* lines 107-120: one iteration of the loop
PairPosPairSet ==
    /\ pc = "loop" /\ idx <= Min(Len(coverage), Len(offsets))
    /\ \E r \in {read_pair_set(c, coverage[idx], offsets[idx], value_format1,
                               value_format2, mapping)} :
          /\ reads' = Append(reads, pair_set_start(c, offsets[idx]))
          /\ c' = r.c
          /\ IF r.st = "ok"
             THEN /\ mapping' = r.val
                  /\ idx' = idx + 1
                  /\ UNCHANGED <<pc, outcome, ret>>
             ELSE /\ pc' = "returned"
                  /\ outcome' = "err"
                  /\ ret' = <<>>
                  /\ UNCHANGED <<mapping, idx>>
    /\ UNCHANGED <<kind, overflow_checks, subst, pairpos, wire, data, tampered,
                   c0, format, coverage, value_format1, value_format2, offsets,
                   wire2, data2>>

\* lines 127-128: pop and Ok
PairPosEnd ==
    /\ pc = "loop" /\ idx > Min(Len(coverage), Len(offsets))
    /\ c' = pop(c)
    /\ outcome' = "ok"
    /\ ret' = <<mapping>>
    /\ pc' = "returned"
    /\ UNCHANGED <<kind, overflow_checks, subst, pairpos, wire, data, tampered,
                   c0, format, coverage, value_format1, value_format2, offsets,
                   idx, mapping, reads, wire2, data2>>

\* the decoded mapping encoded again
SingleSubstReEncode ==
    /\ pc = "returned" /\ outcome = "ok" /\ kind = "subst"
    /\ wire2' = SingleSubstInternal_from(ret[1])
    /\ data2' = SingleSubstInternal_to_bytes(wire2')
    /\ pc' = "reencoded"
    /\ UNCHANGED <<kind, overflow_checks, subst, pairpos, wire, data, tampered,
                   decodeVars>>

PairPosReEncode ==
    /\ pc = "returned" /\ outcome = "ok" /\ kind = "pair"
    /\ wire2' = PairPosInternal_from(ret[1])
    /\ data2' = PairPosFormat1_to_bytes(wire2')
    /\ pc' = "reencoded"
    /\ UNCHANGED <<kind, overflow_checks, subst, pairpos, wire, data, tampered,
                   decodeVars>>

Next ==
    \/ SingleSubstEncode
    \/ PairPosEncode
    \/ SetTag
    \/ Truncate
    \/ RedirectPairSet
    \/ SingleSubstDecode
    \/ PairPosBegin
    \/ PairPosPairSet
    \/ PairPosEnd
    \/ SingleSubstReEncode
    \/ PairPosReEncode

Spec == Init /\ [][Next]_vars

TypeOK ==
    /\ kind \in {"subst", "pair"}
    /\ pc \in {"start", "encoded", "loop", "returned", "panicked", "reencoded"}
    /\ outcome \in {"none", "ok", "err", "panic"}
    /\ Len(ret) <= 1

(***************************************************************************)
(* Properties.                                                             *)
(***************************************************************************)
Ended == pc \in {"returned", "panicked", "reencoded"}

FirstKey(m) == CHOOSE k \in DOMAIN m : \A j \in DOMAIN m : k <= j
\* the key with i - 1 smaller keys
KeyOfRank(keys, i) == CHOOSE k \in keys : Cardinality({j \in keys : j < k}) = i - 1
StrictlyAscending(s) == \A i \in 1..(Len(s) - 1) : s[i] < s[i + 1]

\* the 16-bit deltas relating a key of m to its value: at most one of them
\* means a single wrapping delta relates every key to its value
Deltas(m) == {(m[k] - k) % U16Mod : k \in DOMAIN m}
ValuesByAscendingKey(m, subs) ==
    /\ Len(subs) = Cardinality(DOMAIN m)
    /\ \A i \in 1..Len(subs) : subs[i] = m[KeyOfRank(DOMAIN m, i)]

\* C1: decoding the bytes produced by encoding a SubstitutionMapping M
\* succeeds and returns a mapping equal to M
C1_RoundTrip ==
    (kind = "subst" /\ Ended /\ ~tampered) =>
        (outcome = "ok" /\ ret = <<subst>>)

\* C2 as stated: every M related by a single wrapping delta (the empty
\* mapping included) is encoded as Format 1 with delta value(firstKey) -
\* firstKey mod 65536; every other M as Format 2 with the values in
\* ascending-key order
C2_Original ==
    (kind = "subst" /\ pc # "start") =>
        /\ Cardinality(Deltas(subst)) <= 1 =>
              /\ wire.substFormat = 1
              /\ wire.deltaGlyphID % U16Mod
                    = (subst[FirstKey(subst)] - FirstKey(subst)) % U16Mod
        /\ Cardinality(Deltas(subst)) > 1 =>
              /\ wire.substFormat = 2
              /\ ValuesByAscendingKey(subst, wire.substituteGlyphIDs)

\* C2 amended: every non-empty M related by a single wrapping delta is
\* encoded as Format 1 with delta value(firstKey) - firstKey mod 65536; the
\* empty mapping and every M with an entry breaking the uniform delta are
\* encoded as Format 2 with the values in ascending-key order
C2_FormatSelection ==
    (kind = "subst" /\ pc # "start") =>
        /\ Cardinality(Deltas(subst)) = 1 =>
              /\ wire.substFormat = 1
              /\ wire.deltaGlyphID \in (0 - I16Lim)..(I16Lim - 1)
              /\ wire.deltaGlyphID % U16Mod
                    = (subst[FirstKey(subst)] - FirstKey(subst)) % U16Mod
        /\ Cardinality(Deltas(subst)) # 1 =>
              /\ wire.substFormat = 2
              /\ ValuesByAscendingKey(subst, wire.substituteGlyphIDs)

C2_Witness ==
    /\ kind = "subst" /\ pc = "encoded"
    /\ Cardinality(DOMAIN subst) = 2
    /\ wire.substFormat = 1
    /\ \E k \in DOMAIN subst : subst[k] < k

\* C3: decoding a Format 1 subtable never fails with an overflow and maps
\* every covered glyph g to (g + deltaGlyphID) mod 2^16
C3_Format1Wraps ==
    (kind = "subst" /\ Ended /\ ~tampered /\ wire.substFormat = 1) =>
        /\ outcome = "ok"
        /\ \A i \in DOMAIN wire.coverage :
              ret[1][wire.coverage[i]]
                 = (wire.coverage[i] + wire.deltaGlyphID) % U16Mod

\* the format tag of the input of the decode call, -1 when the input is
\* shorter than a tag
InputTag == IF CanRead(c0, 2) THEN PeekU16(c0) ELSE 0 - 1
TagSupported ==
    \/ kind = "subst" /\ InputTag \in {1, 2}
    \/ kind = "pair" /\ InputTag = 1

\* C4: a decode call yields a mapping only for a supported tag (1 or 2 for
\* substitution, 1 for pair positioning); for any other tag it ends in a
\* failure, a panic when the tag could be read, and returns no mapping
C4_OnlySupportedTags ==
    (pc \in {"loop", "returned", "panicked", "reencoded"}) =>
        /\ (outcome = "ok" \/ ret # <<>> \/ pc = "loop") => TagSupported
        /\ ~TagSupported =>
              /\ pc \in {"returned", "panicked"}
              /\ outcome \in {"err", "panic"}
              /\ ret = <<>>
              /\ InputTag # 0 - 1 => (outcome = "panic" /\ pc = "panicked")

C4_Witness ==
    /\ kind = "pair" /\ pc = "panicked" /\ InputTag = 2 /\ ret = <<>>

\* C5: encoding a PairPositioningMapping M and decoding the result yields
\* exactly the left glyphs of M and, for each, exactly its (right glyph,
\* record pair) entries (records compared in simplified form)
C5_PairRoundTrip ==
    (kind = "pair" /\ Ended /\ ~tampered) =>
        /\ outcome = "ok"
        /\ DOMAIN ret[1] = DOMAIN pairpos
        /\ \A k \in DOMAIN pairpos :
              ret[1][k] = <<simplify(pairpos[k][1]), simplify(pairpos[k][2])>>

\* C6: encode(decode(encode(M))) is the same wire variant and bytes as
\* encode(M), for every canonical mapping of either kind
C6_StableReencode ==
    (Ended /\ ~tampered) =>
        /\ outcome = "ok"
        /\ pc = "reencoded" => (wire2 = wire /\ data2 = data)

\* C7: the encoder's coverage is ascending, duplicate-free and equal to the
\* key set (left glyph set); element i of the parallel array belongs to
\* coverage[i]; every pair set is strictly ascending by right glyph
C7_CoverageCorrelation ==
    (pc # "start") =>
        /\ StrictlyAscending(wire.coverage)
        /\ kind = "subst" =>
              /\ Range(wire.coverage) = DOMAIN subst
              /\ wire.substFormat = 2 =>
                    /\ Len(wire.substituteGlyphIDs) = Len(wire.coverage)
                    /\ \A i \in DOMAIN wire.coverage :
                          wire.substituteGlyphIDs[i] = subst[wire.coverage[i]]
        /\ kind = "pair" =>
              /\ Range(wire.coverage) = {k[1] : k \in DOMAIN pairpos}
              /\ Len(wire.pairSets) = Len(wire.coverage)
              /\ \A i \in DOMAIN wire.coverage :
                    LET ps == wire.pairSets[i]
                    IN  /\ StrictlyAscending([j \in DOMAIN ps |-> ps[j].secondGlyph])
                        /\ {<<wire.coverage[i], ps[j].secondGlyph>> : j \in DOMAIN ps}
                              = {k \in DOMAIN pairpos : k[1] = wire.coverage[i]}
                        /\ \A j \in DOMAIN ps :
                              LET k == <<wire.coverage[i], ps[j].secondGlyph>>
                              IN  /\ ps[j].valueRecord1 = simplify(pairpos[k][1])
                                  /\ ps[j].valueRecord2 = simplify(pairpos[k][2])

C7_Witness ==
    /\ kind = "pair" /\ pc = "encoded"
    /\ Len(wire.coverage) = 1 /\ Len(wire.pairSets[1]) = 2

\* the fields a record uses: those present with a value other than zero
UsedFields(r) == {f \in DOMAIN r : r[f] # <<>> /\ r[f] # <<0>>}

\* C8: valueFormat1 (valueFormat2) is the union, over every entry of the
\* whole subtable, of the fields the first (second) record uses once
\* simplified; both are empty for the empty mapping and redundant zero
\* fields of the input do not enter them
C8_SharedFormats ==
    (kind = "pair" /\ pc # "start") =>
        /\ wire.valueFormat1 = UNION {UsedFields(pairpos[k][1]) : k \in DOMAIN pairpos}
        /\ wire.valueFormat2 = UNION {UsedFields(pairpos[k][2]) : k \in DOMAIN pairpos}
        /\ DOMAIN pairpos = {} => (wire.valueFormat1 = {} /\ wire.valueFormat2 = {})

C8_Witness ==
    /\ kind = "pair" /\ pc = "encoded"
    /\ \E k1 \in DOMAIN pairpos : \E k2 \in DOMAIN pairpos :
          /\ k1[1] < k2[1]
          /\ UsedFields(pairpos[k2][1]) \ UsedFields(pairpos[k1][1]) # {}
          /\ flags(pairpos[k1][1]) # UsedFields(pairpos[k1][1])

\* C9: pair set i is read at (position of the format tag + pairSetOffset[i]
\* as stored in the input), whatever was read for the pair sets before it;
\* during the loop the table base and the offsets stay those of the subtable
C9_PairSetReads ==
    (kind = "pair" /\ pc \in {"loop", "returned", "reencoded"}) =>
        /\ \A i \in DOMAIN reads :
              reads[i] = c0.ptr + PairSetOffsetAt(c0.input, c0.ptr, i)
        /\ pc = "loop" =>
              /\ top_of_table(c) = c0.ptr
              /\ \A i \in DOMAIN offsets :
                    offsets[i] = PairSetOffsetAt(c0.input, c0.ptr, i)

C9_Witness ==
    /\ kind = "pair" /\ pc = "returned" /\ outcome = "ok"
    /\ c0.ptr > 0
    /\ Len(reads) = 2 /\ reads[2] <= reads[1]

\* C10: on every return of PairPos::from_bytes, Ok or Err, the stack of
\* table bases is the one the call began with
C10_StackBalanced ==
    (kind = "pair" /\ pc = "returned") => c.stack = c0.stack

====
